---- MODULE Spec2Model ----
(***************************************************************************)
(* Model of the three-stage lidar pipeline of tp02 (main program):         *)
(* load_data_thread -> loaded -> preprocess_discard_thread -> preprocessed *)
(* -> identify_driveable_thread -> publish_data, with the SIGINT handler   *)
(* signal_handler.  One step per statement that touches shared state; the  *)
(* labels are the source lines (L = load_data_thread, P =                  *)
(* preprocess_discard_thread, I = identify_driveable_thread, H =           *)
(* signal_handler, M = main).                                              *)
(***************************************************************************)
EXTENDS Integers, Sequences, FiniteSets, TLC

\* ---------------------------------------------------------------- bounds
\* pending[c] (puts minus takes, a history counter) saturates here.
MaxPending == 2
\* the history sequences handed / published stop growing at this length.
MaxHist == 2
\* number of SIGINT deliveries explored.
MaxSignals == 2

\* clock readings are clipped here: times at or after Horizon are not
\* distinguished (unit: 100 ms).
Horizon == 22
\* number of samples fed to the jitter accumulator.
MaxSamples == 3

\* ------------------------------------------------------------- constants
\* struct timespec interval {0, 100000000}: one unit of time is 100 ms
Period == 1
\* 1000000000 ns per second, in units of 100 ms
NsecPerSec == 10
\* files.size() of load_data_from_files
NumFiles == 3

Stages == {"load", "prep", "id"}
AllThreads == Stages \cup {"main"}
Chans == {"loaded", "preprocessed"}
Conds == {"loaded.data_available", "loaded.data_is_null",
          "preprocessed.data_available", "preprocessed.data_is_null"}

\* the frame source may report a failure (spec section 6); the signature
\* void load_data(std::string, lidar_data*) gives the caller nothing to test.
LoadOutcome == {TRUE, FALSE}

\* lidar_data inflight{} : an empty point cloud
EmptyData == [file |-> 0, stage |-> 0, ok |-> TRUE]

\* preprocess_discard(&inflight, &outbound): filters the raw cloud
preprocess_discard(in) == [in EXCEPT !.stage = 1]

\* identify_driveable(&inflight, &output): filters the preprocessed cloud
identify_driveable(in) == [in EXCEPT !.stage = 2]

\* ---------------------------------------------------------------- time
\* struct timespec as the number of 100 ms units it denotes, and back
ToUnits(ts) == ts.tv_sec * NsecPerSec + ts.tv_nsec
FromUnits(u) == [tv_sec |-> u \div NsecPerSec, tv_nsec |-> u % NsecPerSec]
Clip(ts) == IF ToUnits(ts) >= Horizon THEN FromUnits(Horizon) ELSE ts

\* timespec_add(a, b, out): the sum, with tv_nsec carried into tv_sec
timespec_add(a, b) ==
  LET ns == a.tv_nsec + b.tv_nsec
  IN  IF ns >= NsecPerSec
      THEN [tv_sec |-> a.tv_sec + b.tv_sec + 1, tv_nsec |-> ns - NsecPerSec]
      ELSE [tv_sec |-> a.tv_sec + b.tv_sec, tv_nsec |-> ns]

interval == [tv_sec |-> 0, tv_nsec |-> Period]

InitialTime_StartPlusPeriod(t0) == timespec_add(t0, interval)

\* clock_gettime(&initial_time); initial_time.tv_sec++; initial_time.tv_nsec = 0
InitialTime(t0) == [tv_sec |-> t0.tv_sec + 1, tv_nsec |-> 0]

\* clock readings at the start of main explored by the timed specification
StartTimes == {[tv_sec |-> 0, tv_nsec |-> n] : n \in {0, 7, 9}}

\* timing samples fed to the jitter accumulator
Samples == 0..4

VARIABLES
  running,        \* state_unsafe.running
  chan,           \* chan[c].has_data, chan[c].data
  mutex,          \* owner of c.mutex: "none", a stage, or "sig" (the handler)
  waiters,        \* threads blocked in pthread_cond_wait on each condition
  pc,             \* position of each thread
  inflight,       \* the local inflight of each stage
  outbound,       \* the local outbound / output of each stage
  next_file,      \* static int next_file of load_data_from_files
  published,      \* frames passed to publish_data, in order
  hpc,            \* position of signal_handler ("idle" when not running)
  hthread,        \* the thread the signal interrupted
  nsig,           \* SIGINT deliveries so far
  pending,        \* history: successful puts minus successful takes
  lastPut,        \* history: the frame of the last successful put
  handed,         \* history: files of the frames stored into loaded, in order
  parkedAtStart,  \* history: threads parked when the handler set running = 0
  beganStopped,   \* history: running was 0 when the stage locked for its
                  \*          current put / take
  now,            \* CLOCK_MONOTONIC, in units, clipped at Horizon
  start_time,     \* history: the clock reading of main line 228
  initial_time,   \* state_unsafe.initial_time
  next_wake,      \* the local next_wake of load_data_thread
  cycles,         \* history: cycles completed before the horizon
  overrunAt,      \* history: the clock when the last timespec_add produced
                  \*          a next_wake already in the past, else -1
  jitter,         \* a struct jitter_t
  samples         \* history: the samples recorded into jitter

vars == <<running, chan, mutex, waiters, pc, inflight, outbound, next_file,
          published, hpc, hthread, nsig, pending, lastPut, handed,
          parkedAtStart, beganStopped, now, start_time, initial_time,
          next_wake, cycles, overrunAt, jitter, samples>>

jvars == <<jitter, samples>>
clock == <<now, start_time, initial_time>>
tvars == <<clock, next_wake, cycles, overrunAt, jvars>>

\* jitter_init(&s)
jitter_init == [num |-> 0, sum |-> 0, sum_of_squares |-> 0]

\* static struct state state_unsafe (zero-initialised), main lines 220-236,
\* for a pipeline started at clock reading t0
InitAt(t0) ==
  /\ start_time = t0
  /\ now = ToUnits(t0)
  /\ initial_time = Clip(InitialTime(t0))
  /\ next_wake = Clip(InitialTime(t0))
  /\ cycles = 0
  /\ overrunAt = -1
  /\ jitter = jitter_init
  /\ samples = <<>>
  /\ running = TRUE
  /\ chan = [c \in Chans |-> [has_data |-> FALSE, data |-> EmptyData]]
  /\ mutex = [c \in Chans |-> "none"]
  /\ waiters = [k \in Conds |-> {}]
  /\ pc = [t \in AllThreads |->
             CASE t = "load" -> "L60" [] t = "prep" -> "P96"
               [] t = "id" -> "I147" [] OTHER -> "M238"]
  /\ inflight = [t \in Stages |-> EmptyData]
  /\ outbound = [t \in Stages |-> EmptyData]
  /\ next_file = 0
  /\ published = <<>>
  /\ hpc = "idle"
  /\ hthread = "none"
  /\ nsig = 0
  /\ pending = [c \in Chans |-> 0]
  /\ lastPut = [c \in Chans |-> EmptyData]
  /\ handed = <<>>
  /\ parkedAtStart = {}
  /\ beganStopped = [t \in Stages |-> FALSE]

\* the pipeline with its timing not observed: started at the horizon
Init == InitAt(FromUnits(Horizon))

\* the pipeline started at an observed clock reading
TimedInit == \E t0 \in StartTimes : InitAt(t0)

\* ----------------------------------------------------------- primitives
Parked(t) == \E k \in Conds : t \in waiters[k]

\* a thread runs only while no handler is executing on its stack
Interrupted(t) == hthread = t

Goto(t, l) == pc' = [pc EXCEPT ![t] = l]

hvars == <<hpc, hthread, nsig, parkedAtStart>>
locals == <<inflight, outbound, next_file>>
hist == <<pending, lastPut, handed>>

pthread_mutex_lock_NoWait(t, c, next) ==
  /\ mutex' = [mutex EXCEPT ![c] = t]
  /\ beganStopped' = [beganStopped EXCEPT ![t] = ~running]
  /\ Goto(t, next)
  /\ UNCHANGED <<tvars, running, chan, waiters, locals, published, hvars, hist>>

\* pthread_mutex_lock(c.mutex) by stage t
pthread_mutex_lock(t, c, next) ==
  /\ mutex[c] = "none"
  /\ mutex' = [mutex EXCEPT ![c] = t]
  /\ beganStopped' = [beganStopped EXCEPT ![t] = ~running]
  /\ Goto(t, next)
  /\ UNCHANGED <<tvars, running, chan, waiters, locals, published, hvars, hist>>

\* pthread_mutex_unlock(c.mutex) by stage t
pthread_mutex_unlock(t, c, next) ==
  /\ mutex' = [mutex EXCEPT ![c] = "none"]
  /\ Goto(t, next)
  /\ UNCHANGED <<tvars, running, chan, waiters, locals, published, hvars, hist,
                 beganStopped>>

\* pthread_cond_signal(k): wakes one waiter of k, if there is one
SignalSet(k) ==
  IF waiters[k] = {} THEN {waiters}
  ELSE {[waiters EXCEPT ![k] = @ \ {w}] : w \in waiters[k]}

pthread_cond_signal(t, k, next) ==
  /\ waiters' \in SignalSet(k)
  /\ Goto(t, next)
  /\ UNCHANGED <<tvars, running, chan, mutex, locals, published, hvars, hist,
                 beganStopped>>

\* while (<blocked>) { pthread_cond_wait(k, c.mutex); ... : the loop test and
\* the entry into the wait, which releases the mutex
WhileWait(t, c, k, blocked, waitpc, exitpc) ==
  IF blocked
  THEN /\ waiters' = [waiters EXCEPT ![k] = @ \cup {t}]
       /\ mutex' = [mutex EXCEPT ![c] = "none"]
       /\ Goto(t, waitpc)
       /\ UNCHANGED <<tvars, running, chan, locals, published, hvars, hist,
                      beganStopped>>
  ELSE /\ Goto(t, exitpc)
       /\ UNCHANGED <<tvars, running, chan, mutex, waiters, locals, published,
                      hvars, hist, beganStopped>>

\* return from pthread_cond_wait: woken (or woken spuriously), the thread
\* re-acquires the mutex
CondWaitReturn(t, c, next) ==
  /\ ~Parked(t)
  /\ mutex[c] = "none"
  /\ mutex' = [mutex EXCEPT ![c] = t]
  /\ Goto(t, next)
  /\ UNCHANGED <<tvars, running, chan, waiters, locals, published, hvars, hist,
                 beganStopped>>

IfNotRunningReturn_KeepsLock(t, c, looppc) ==
  /\ Goto(t, IF ~running THEN "done" ELSE looppc)
  /\ UNCHANGED <<tvars, running, chan, mutex, waiters, locals, published,
                 hvars, hist, beganStopped>>

\* if (!state->running) { pthread_mutex_unlock(c.mutex); return nullptr; }
IfNotRunningReturn(t, c, looppc) ==
  IF ~running
  THEN pthread_mutex_unlock(t, c, "done")
  ELSE /\ Goto(t, looppc)
       /\ UNCHANGED <<tvars, running, chan, mutex, waiters, locals, published,
                      hvars, hist, beganStopped>>

\* while (state->running) ... return nullptr;
WhileRunning(t, bodypc) ==
  /\ Goto(t, IF running THEN bodypc ELSE "done")
  /\ UNCHANGED <<tvars, running, chan, mutex, waiters, locals, published, hvars,
                 hist, beganStopped>>

\* a statement that touches no shared state
Skip(t, next) ==
  /\ Goto(t, next)
  /\ UNCHANGED <<tvars, running, chan, mutex, waiters, locals, published, hvars,
                 hist, beganStopped>>

\* c.data = item : the store of a put (history: one more frame pending)
StoreData(t, c, item, next) ==
  /\ chan' = [chan EXCEPT ![c].data = item]
  /\ pending' = [pending EXCEPT ![c] = IF @ < MaxPending THEN @ + 1 ELSE @]
  /\ lastPut' = [lastPut EXCEPT ![c] = item]
  /\ handed' = IF c = "loaded" /\ Len(handed) < MaxHist
               THEN Append(handed, item.file) ELSE handed
  /\ Goto(t, next)
  /\ UNCHANGED <<tvars, running, mutex, waiters, locals, published, hvars,
                 beganStopped>>

\* lidar_data inflight = c.data : the read of a take (history: one less
\* frame pending)
ReadData(t, c, next) ==
  /\ inflight' = [inflight EXCEPT ![t] = chan[c].data]
  /\ pending' = [pending EXCEPT ![c] = IF @ > 0 THEN @ - 1 ELSE 0]
  /\ Goto(t, next)
  /\ UNCHANGED <<tvars, running, chan, mutex, waiters, outbound, next_file,
                 published, hvars, lastPut, handed, beganStopped>>

\* c.has_data = v
SetHasData(t, c, v, next) ==
  /\ chan' = [chan EXCEPT ![c].has_data = v]
  /\ Goto(t, next)
  /\ UNCHANGED <<tvars, running, mutex, waiters, locals, published, hvars, hist,
                 beganStopped>>

\* ------------------------------------------------------ load_data_thread
\* load_data_from_files(&inflight): reads files[next_file], advances next_file
load_data_from_files(t, next) ==
  /\ \E ok \in LoadOutcome :
       inflight' = [inflight EXCEPT
                      ![t] = [file |-> next_file + 1, stage |-> 0, ok |-> ok]]
  /\ next_file' = (next_file + 1) % NumFiles
  /\ Goto(t, next)
  /\ UNCHANGED <<tvars, running, chan, mutex, waiters, outbound, published, hvars,
                 hist, beganStopped>>

L60 == WhileRunning("load", "L63")
\* sleep_until(&next_wake): returns once the clock has reached next_wake, at
\* once when next_wake is already past
sleep_until(t, ts, next) ==
  /\ now >= ToUnits(ts)
  /\ Goto(t, next)
  /\ UNCHANGED <<tvars, running, chan, mutex, waiters, locals, published,
                 hvars, hist, beganStopped>>

L63 == sleep_until("load", next_wake, "L66")
L66 == load_data_from_files("load", "L68")
L68 == pthread_mutex_lock("load", "loaded", "L70")
L70 == WhileWait("load", "loaded", "loaded.data_is_null",
                 chan["loaded"].has_data, "L72", "L81")
L72 == CondWaitReturn("load", "loaded", "L74")
L74 == IfNotRunningReturn("load", "loaded", "L70")
L81 == StoreData("load", "loaded", inflight["load"], "L82")
L82 == pthread_cond_signal("load", "loaded.data_available", "L84")
L84_NoUnlock == Skip("load", "L86")
L84 == pthread_mutex_unlock("load", "loaded", "L86")
L86_RelativeWake ==
  /\ next_wake' = Clip(FromUnits(now + Period))
  /\ cycles' = IF ToUnits(next_wake) < Horizon THEN cycles + 1 ELSE cycles
  /\ overrunAt' = IF ToUnits(next_wake') < now THEN now ELSE -1
  /\ inflight' = [inflight EXCEPT !["load"] = EmptyData]
  /\ Goto("load", "L60")
  /\ UNCHANGED <<clock, jvars, running, chan, mutex, waiters, outbound, next_file,
                 published, hvars, hist, beganStopped>>
\* timespec_add(&next_wake, &interval, &next_wake); inflight goes out of scope
L86 ==
  /\ next_wake' = Clip(timespec_add(next_wake, interval))
  /\ cycles' = IF ToUnits(next_wake) < Horizon THEN cycles + 1 ELSE cycles
  /\ overrunAt' = IF ToUnits(next_wake') < now THEN now ELSE -1
  /\ inflight' = [inflight EXCEPT !["load"] = EmptyData]
  /\ Goto("load", "L60")
  /\ UNCHANGED <<clock, jvars, running, chan, mutex, waiters, outbound, next_file,
                 published, hvars, hist, beganStopped>>

load_data_thread ==
  /\ ~Interrupted("load")
  /\ CASE pc["load"] = "L60" -> L60
       [] pc["load"] = "L63" -> L63
       [] pc["load"] = "L66" -> L66
       [] pc["load"] = "L68" -> L68
       [] pc["load"] = "L70" -> L70
       [] pc["load"] = "L72" -> L72
       [] pc["load"] = "L74" -> L74
       [] pc["load"] = "L81" -> L81
       [] pc["load"] = "L82" -> L82
       [] pc["load"] = "L84" -> L84
       [] pc["load"] = "L86" -> L86
       [] OTHER -> FALSE

\* --------------------------------------------- preprocess_discard_thread
P96 == WhileRunning("prep", "P98")
P98 == pthread_mutex_lock("prep", "loaded", "P100")
P100_WaitsOnDataIsNull ==
  WhileWait("prep", "loaded", "loaded.data_is_null",
            ~chan["loaded"].has_data, "P102", "P111")
P100 == WhileWait("prep", "loaded", "loaded.data_available",
                  ~chan["loaded"].has_data, "P102", "P111")
P102 == CondWaitReturn("prep", "loaded", "P104")
P104 == IfNotRunningReturn("prep", "loaded", "P100")
P111 == ReadData("prep", "loaded", "P112")
P112 == SetHasData("prep", "loaded", FALSE, "P113")
P113 == pthread_cond_signal("prep", "loaded.data_is_null", "P115")
P115 == pthread_mutex_unlock("prep", "loaded", "P118")
P118 ==
  /\ outbound' = [outbound EXCEPT !["prep"] = preprocess_discard(inflight["prep"])]
  /\ Goto("prep", "P120")
  /\ UNCHANGED <<tvars, running, chan, mutex, waiters, inflight, next_file,
                 published, hvars, hist, beganStopped>>
P120 == pthread_mutex_lock("prep", "preprocessed", "P122")
P122 == WhileWait("prep", "preprocessed", "preprocessed.data_is_null",
                  chan["preprocessed"].has_data, "P124", "P133")
P124 == CondWaitReturn("prep", "preprocessed", "P126")
P126 == IfNotRunningReturn("prep", "preprocessed", "P122")
P133 == StoreData("prep", "preprocessed", outbound["prep"], "P134")
P134 == SetHasData("prep", "preprocessed", TRUE, "P135")
P135 == pthread_cond_signal("prep", "preprocessed.data_available", "P137")
P137 == pthread_mutex_unlock("prep", "preprocessed", "P96")

preprocess_discard_thread ==
  /\ ~Interrupted("prep")
  /\ CASE pc["prep"] = "P96" -> P96
       [] pc["prep"] = "P98" -> P98
       [] pc["prep"] = "P100" -> P100
       [] pc["prep"] = "P102" -> P102
       [] pc["prep"] = "P104" -> P104
       [] pc["prep"] = "P111" -> P111
       [] pc["prep"] = "P112" -> P112
       [] pc["prep"] = "P113" -> P113
       [] pc["prep"] = "P115" -> P115
       [] pc["prep"] = "P118" -> P118
       [] pc["prep"] = "P120" -> P120
       [] pc["prep"] = "P122" -> P122
       [] pc["prep"] = "P124" -> P124
       [] pc["prep"] = "P126" -> P126
       [] pc["prep"] = "P133" -> P133
       [] pc["prep"] = "P134" -> P134
       [] pc["prep"] = "P135" -> P135
       [] pc["prep"] = "P137" -> P137
       [] OTHER -> FALSE

\* --------------------------------------------- identify_driveable_thread
\* state->publish_data(&output)
publish_data(t, next) ==
  /\ published' = IF Len(published) < MaxHist
                  THEN Append(published, outbound[t]) ELSE published
  /\ Goto(t, next)
  /\ UNCHANGED <<tvars, running, chan, mutex, waiters, locals, hvars, hist,
                 beganStopped>>

I147 == WhileRunning("id", "I149")
I149 == pthread_mutex_lock("id", "preprocessed", "I151")
I151 == WhileWait("id", "preprocessed", "preprocessed.data_available",
                  ~chan["preprocessed"].has_data, "I153", "I162")
I153 == CondWaitReturn("id", "preprocessed", "I155")
I155 == IfNotRunningReturn("id", "preprocessed", "I151")
I162 == ReadData("id", "preprocessed", "I163")
I163 == SetHasData("id", "preprocessed", FALSE, "I164")
I164 == pthread_cond_signal("id", "preprocessed.data_is_null", "I166")
I166 == pthread_mutex_unlock("id", "preprocessed", "I169")
I169 ==
  /\ outbound' = [outbound EXCEPT !["id"] = identify_driveable(inflight["id"])]
  /\ Goto("id", "I171")
  /\ UNCHANGED <<tvars, running, chan, mutex, waiters, inflight, next_file,
                 published, hvars, hist, beganStopped>>
I171 == publish_data("id", "I147")

identify_driveable_thread ==
  /\ ~Interrupted("id")
  /\ CASE pc["id"] = "I147" -> I147
       [] pc["id"] = "I149" -> I149
       [] pc["id"] = "I151" -> I151
       [] pc["id"] = "I153" -> I153
       [] pc["id"] = "I155" -> I155
       [] pc["id"] = "I162" -> I162
       [] pc["id"] = "I163" -> I163
       [] pc["id"] = "I164" -> I164
       [] pc["id"] = "I166" -> I166
       [] pc["id"] = "I169" -> I169
       [] pc["id"] = "I171" -> I171
       [] OTHER -> FALSE

\* -------------------------------------------------------- signal_handler
\* SIGINT is delivered to a thread of the process that is still alive; the
\* handler then runs on that thread's stack and the thread itself waits for
\* the handler to return.  A thread interrupted inside pthread_cond_wait
\* stays a waiter of its condition ("resumes waiting as if it was not
\* interrupted"), so the handler's own pthread_cond_signal can wake it.
\* running is a plain int written by the handler and read by the stages
\* without synchronisation; every read is followed by an opaque call, so a
\* read sees the value stored last.
Alive(t) == pc[t] \notin {"done", "finished"}

Deliver ==
  /\ hpc = "idle"
  /\ nsig < MaxSignals
  /\ pc["main"] # "finished"
  /\ \E t \in AllThreads : Alive(t) /\ hthread' = t
  /\ hpc' = "H20"
  /\ nsig' = nsig + 1
  /\ UNCHANGED <<tvars, running, chan, mutex, waiters, pc, locals, published,
                 parkedAtStart, hist, beganStopped>>

HGoto(l) ==
  /\ hpc' = l
  /\ hthread' = IF l = "idle" THEN "none" ELSE hthread

H20_Toggles ==
  /\ running' = ~running
  /\ parkedAtStart' = {t \in Stages : Parked(t)}
  /\ HGoto("H22")
  /\ UNCHANGED <<tvars, chan, mutex, waiters, pc, locals, published, nsig, hist,
                 beganStopped>>

\* state_unsafe.running = 0
H20 ==
  /\ running' = FALSE
  /\ parkedAtStart' = {t \in Stages : Parked(t)}
  /\ HGoto("H22")
  /\ UNCHANGED <<tvars, chan, mutex, waiters, pc, locals, published, nsig, hist,
                 beganStopped>>

\* pthread_mutex_lock(c.mutex) inside the handler: the mutex is a default
\* (non-recursive) one, so the handler waits until it is free, also when its
\* owner is the thread the handler interrupted
HLock(c, next) ==
  /\ mutex[c] = "none"
  /\ mutex' = [mutex EXCEPT ![c] = "sig"]
  /\ HGoto(next)
  /\ UNCHANGED <<tvars, running, chan, waiters, pc, locals, published, nsig,
                 parkedAtStart, hist, beganStopped>>

HUnlock(c, next) ==
  /\ mutex' = [mutex EXCEPT ![c] = "none"]
  /\ HGoto(next)
  /\ UNCHANGED <<tvars, running, chan, waiters, pc, locals, published, nsig,
                 parkedAtStart, hist, beganStopped>>

HSignal(k, next) ==
  /\ waiters' \in SignalSet(k)
  /\ HGoto(next)
  /\ UNCHANGED <<tvars, running, chan, mutex, pc, locals, published, nsig,
                 parkedAtStart, hist, beganStopped>>

H22 == HLock("loaded", "H23")
H23_SignalsDataIsNull == HSignal("loaded.data_is_null", "H24")
H23 == HSignal("loaded.data_available", "H24")
H24 == HSignal("loaded.data_is_null", "H25")
H25 == HUnlock("loaded", "H27")
H27 == HLock("preprocessed", "H28")
H28 == HSignal("preprocessed.data_available", "H29")
H29 == HSignal("preprocessed.data_is_null", "H30")
H30 == HUnlock("preprocessed", "idle")

signal_handler ==
  CASE hpc = "H20" -> H20
    [] hpc = "H22" -> H22
    [] hpc = "H23" -> H23
    [] hpc = "H24" -> H24
    [] hpc = "H25" -> H25
    [] hpc = "H27" -> H27
    [] hpc = "H28" -> H28
    [] hpc = "H29" -> H29
    [] hpc = "H30" -> H30
    [] OTHER -> FALSE

\* a thread blocked in pthread_cond_wait may wake without a signal
SpuriousWakeup ==
  /\ \E k \in Conds : \E t \in waiters[k] :
       waiters' = [waiters EXCEPT ![k] = @ \ {t}]
  /\ UNCHANGED <<tvars, running, chan, mutex, pc, locals, published, hvars, hist,
                 beganStopped>>

\* ------------------------------------------------------------------ main
\* pthread_join(load), pthread_join(prep), pthread_join(id)
pthread_join(t, next) ==
  /\ pc[t] = "done"
  /\ Goto("main", next)
  /\ UNCHANGED <<tvars, running, chan, mutex, waiters, locals, published, hvars,
                 hist, beganStopped>>

main ==
  /\ ~Interrupted("main")
  /\ CASE pc["main"] = "M238" -> pthread_join("load", "M239")
       [] pc["main"] = "M239" -> pthread_join("prep", "M240")
       [] pc["main"] = "M240" -> pthread_join("id", "finished")
       [] OTHER -> FALSE

Next ==
  \/ load_data_thread
  \/ preprocess_discard_thread
  \/ identify_driveable_thread
  \/ Deliver
  \/ signal_handler
  \/ SpuriousWakeup
  \/ main

Spec == Init /\ [][Next]_vars

\* the clock advances
Tick ==
  /\ now < Horizon
  /\ now' = now + 1
  /\ UNCHANGED <<start_time, initial_time, next_wake, cycles, overrunAt,
                 jvars, running, chan, mutex, waiters, pc, locals, published,
                 hvars, hist, beganStopped>>

\* the pipeline observed on the clock, in runs in which no SIGINT arrives
TimedNext ==
  \/ load_data_thread
  \/ preprocess_discard_thread
  \/ identify_driveable_thread
  \/ SpuriousWakeup
  \/ Tick

TimedSpec == TimedInit /\ [][TimedNext]_vars

\* Fair scheduling of the three stage threads, of main and of a handler that
\* has been entered; the arrival of SIGINT and spurious wakeups are not
\* guaranteed to happen.
FairSpec ==
  /\ Spec
  /\ WF_vars(load_data_thread)
  /\ WF_vars(preprocess_discard_thread)
  /\ WF_vars(identify_driveable_thread)
  /\ WF_vars(signal_handler)
  /\ WF_vars(main)

\* ---------------------------------------------------------------- jitter
record_NoSquare(j, x) ==
  [num |-> j.num + 1, sum |-> j.sum + x,
   sum_of_squares |-> j.sum_of_squares + x]

\* record(sample) of the jitter monitor on a struct jitter_t
record(j, x) ==
  [num |-> j.num + 1, sum |-> j.sum + x,
   sum_of_squares |-> j.sum_of_squares + x * x]

\* jitter_add_datapoint(&s, &t): one timing sample is recorded
jitter_add_datapoint ==
  /\ Len(samples) < MaxSamples
  /\ \E x \in Samples :
       /\ jitter' = record(jitter, x)
       /\ samples' = Append(samples, x)
  /\ UNCHANGED <<clock, next_wake, cycles, overrunAt, running, chan, mutex,
                 waiters, pc, locals, published, hvars, hist, beganStopped>>

\* a jitter accumulator fed with samples, from its initial state
JitterSpec == Init /\ [][jitter_add_datapoint]_vars

\* load_data_thread never assigns loaded.has_data (lines 81-84), and nothing
\* else sets it: the statements after the two take loops (lines 111-137 and
\* 162-171) are never reached and nothing is ever published.
TakeLoopsNeverExit ==
  /\ \A c \in Chans : ~chan[c].has_data
  /\ pc["prep"] \in {"P96", "P98", "P100", "P102", "P104", "done"}
  /\ pc["id"] \in {"I147", "I149", "I151", "I153", "I155", "done"}
  /\ published = <<>>

TypeOK ==
  /\ running \in BOOLEAN
  /\ \A c \in Chans : chan[c].has_data \in BOOLEAN
  /\ \A c \in Chans : mutex[c] \in Stages \cup {"none", "sig"}
  /\ \A k \in Conds : waiters[k] \subseteq Stages
  /\ next_file \in 0..(NumFiles - 1)
  /\ nsig \in 0..MaxSignals
  /\ \A c \in Chans : pending[c] \in 0..MaxPending

\* ================================================================ claims

PutTakeDone(c) == mutex[c] = "none"

\* C1: on each channel successful puts and successful takes strictly
\* alternate, starting with a put (so at most one put is ever pending), and
\* a take returns exactly the frame of the immediately preceding put.
C1_PutsAndTakesAlternate ==
  /\ \A c \in Chans : pending[c] \in {0, 1}
  /\ pc["prep"] = "P112" => inflight["prep"] = lastPut["loaded"]
  /\ pc["id"] = "I163" => inflight["id"] = lastPut["preprocessed"]

\* C2: while running stays true and the stages are scheduled fairly, the
\* k-th frame handed to the loaded channel is eventually the k-th frame
\* passed to publish_data.
C2_EveryFrameIsPublished ==
  ([]running) =>
     \A k \in 1..MaxHist :
        (Len(handed) >= k)
          ~> (Len(published) >= k /\ published[k].file = handed[k])

AllJoined ==
  /\ \A t \in Stages : pc[t] = "done"
  /\ pc["main"] = "finished"

\* C3: if the cancellation handler runs exactly once, then under fair
\* scheduling all three stages eventually return and main's joins complete.
C3_OneSignalStopsAllStages ==
  ([](nsig <= 1)) => ((nsig = 1) ~> AllJoined)

\* C4: once a run of the handler has finished, no thread that was parked in
\* pthread_cond_wait when the handler began is still parked, and such a
\* thread, once woken, never goes back to waiting.
C4_HandlerWakesEveryParkedThread ==
  /\ []((hpc = "idle" /\ nsig > 0) =>
          \A t \in parkedAtStart : ~Parked(t))
  /\ [][\A t \in parkedAtStart :
          (parkedAtStart' = parkedAtStart /\ ~Parked(t)) => ~Parked(t)']_vars

C4_Witness ==
  /\ hpc = "idle"
  /\ nsig = 1
  /\ parkedAtStart = {"prep", "id"}
  /\ pc["prep"] = "done"
  /\ pc["id"] = "done"

\* C5: a put or take begun when running is already false neither stores
\* into the slot, nor takes from it, nor blocks.
C5_StoppedOperationHasNoEffect ==
  [][\A c \in Chans : \A t \in Stages :
       (mutex[c] = t /\ beganStopped[t]) =>
          /\ chan'[c] = chan[c]
          /\ inflight'[t] = inflight[t]
          /\ ~Parked(t)']_vars

\* C6: a put never stores into a channel that still holds a frame the
\* consumer has not taken.
C6_PutNeverOverwrites ==
  [][\A c \in Chans : pending'[c] > pending[c] => pending[c] = 0]_vars

\* C7: whenever no put or take is in progress on a channel, has_data is true
\* exactly when the channel holds a frame put and not yet taken.
C7_HasDataIffFramePending ==
  \A c \in Chans : PutTakeDone(c) => (chan[c].has_data <=> pending[c] >= 1)

\* C9: the handler never waits for a mutex that is held by the thread it
\* interrupted (that thread cannot run until the handler returns).
C9_HandlerNeverSelfDeadlocks ==
  /\ ~(hpc = "H22" /\ mutex["loaded"] = hthread)
  /\ ~(hpc = "H27" /\ mutex["preprocessed"] = hthread)

\* C10: a frame whose acquisition or processing failed is never put into a
\* channel or published, and no stage keeps running after such a failure
\* without the shutdown transition having been made.
C10_FailedFrameStopsPipeline ==
  /\ \A c \in Chans : chan[c].data.ok
  /\ \A i \in 1..Len(published) : published[i].ok
  /\ \A t \in Stages :
       (~inflight[t].ok /\ pc[t] \notin {"L68", "done"}) => ~running

\* C11: next_wake changes only by timespec_add at the end of a cycle, each
\* time by exactly one period, whatever the clock says: the wake scheduled
\* after k completed cycles is the first scheduled wake plus k periods.
C11_NextWakeAdvancesByOnePeriod ==
  /\ [](ToUnits(next_wake) < Horizon =>
          ToUnits(next_wake) = ToUnits(initial_time) + cycles * Period)
  /\ [][next_wake' # next_wake =>
          /\ pc["load"] = "L86"
          /\ ToUnits(next_wake') = ToUnits(next_wake) + Period]_vars

\* eleven cycles done, past the carry of tv_nsec into tv_sec, the last one
\* an overrun
C11_Witness ==
  /\ cycles = 11
  /\ next_wake = [tv_sec |-> 2, tv_nsec |-> 1]
  /\ overrunAt # -1

\* C12: after a timespec_add that produced a next_wake already in the past,
\* the next cycle does not start at once: sleep_until returns only after
\* the clock has advanced to a wake time that was still to come.
C12_NoCatchUpAfterOverrun ==
  [][(pc["load"] = "L63" /\ pc'["load"] = "L66" /\ overrunAt # -1)
       => now > overrunAt]_vars

C14_RunningFallsOnceByHandler ==
  /\ [](nsig = 0 => running)
  /\ [][running' # running =>
          (running /\ ~running' /\ hpc = "H20" /\ hpc' = "H22")]_vars

C14_Witness ==
  /\ ~running
  /\ nsig = 2
  /\ hpc = "idle"
  /\ \E t \in Stages : pc[t] # "done"

\* C15: a second run of the handler changes neither running, nor a channel,
\* nor which stages are parked (so it makes no further stage terminate).
C15_SecondSignalIsNoOp ==
  [][(nsig >= 2 /\ hpc # "idle" /\ hpc' # hpc) =>
       (running' = running /\ chan' = chan /\ waiters' = waiters)]_vars

RECURSIVE SumSeq(_), SumSq(_)
SumSeq(q) == IF q = <<>> THEN 0 ELSE Head(q) + SumSeq(Tail(q))
SumSq(q) == IF q = <<>> THEN 0 ELSE Head(q) * Head(q) + SumSq(Tail(q))

\* C16: after n records num = n, sum is the sum of the samples and
\* sum_of_squares the sum of their squares; only a record changes them
\* (0, 2, 4 give 3, 6, 20: mean 6/3 = 2, variance (3*20 - 6*6)/(3*3) = 8/3).
C16_JitterSufficientStatistics ==
  /\ [](/\ jitter.num = Len(samples)
        /\ jitter.sum = SumSeq(samples)
        /\ jitter.sum_of_squares = SumSq(samples)
        /\ samples = <<0, 2, 4>> =>
             /\ jitter = [num |-> 3, sum |-> 6, sum_of_squares |-> 20]
             /\ 3 * (jitter.num * jitter.sum_of_squares
                       - jitter.sum * jitter.sum) = 8 * jitter.num * jitter.num)
  /\ [][jitter' # jitter => Len(samples') = Len(samples) + 1]_vars

C16_Witness ==
  /\ samples = <<0, 2, 4>>
  /\ jitter.num = 3

\* the test of running that follows each pthread_cond_wait
WakeChecks == {"L74", "P104", "P126", "I155"}

\* C17: a stage that finds running false after a wake releases the mutex
\* and returns, without touching a channel, signalling, storing its frame or
\* publishing; a stage that has returned does nothing more.
C17_WokenStoppedStageAbandons ==
  [][\A t \in Stages :
       /\ (pc[t] \in WakeChecks /\ ~running /\ pc'[t] # pc[t]) =>
            /\ pc'[t] = "done"
            /\ chan' = chan
            /\ waiters' = waiters
            /\ published' = published
            /\ pending' = pending
            /\ \A c \in Chans : mutex'[c] # t
       /\ pc[t] = "done" => pc'[t] = "done"]_vars

C17_Witness ==
  /\ "id" \in parkedAtStart
  /\ pc["id"] = "done"
  /\ pc["prep"] = "P102"
  /\ mutex["preprocessed"] = "none"

\* the statements of stage t between a lock of c.mutex and its unlock
CriticalSection(t, c) ==
  CASE t = "load" /\ c = "loaded" -> {"L70", "L74", "L81", "L82", "L84"}
    [] t = "prep" /\ c = "loaded" ->
         {"P100", "P104", "P111", "P112", "P113", "P115"}
    [] t = "prep" /\ c = "preprocessed" ->
         {"P122", "P126", "P133", "P134", "P135", "P137"}
    [] t = "id" /\ c = "preprocessed" ->
         {"I151", "I155", "I162", "I163", "I164", "I166"}
    [] OTHER -> {}

\* C18: a stage that is at a statement reading or writing c.data or
\* c.has_data owns c.mutex (so no two stages are in critical sections of one
\* channel), and a channel changes only in a step of the owner of its mutex.
C18_ChannelAccessUnderMutex ==
  /\ [](\A c \in Chans : \A t \in Stages :
          pc[t] \in CriticalSection(t, c) => mutex[c] = t)
  /\ [][\A c \in Chans : chan'[c] # chan[c] =>
          (mutex[c] \in Stages /\ pc'[mutex[c]] # pc[mutex[c]])]_vars

C18_Witness ==
  /\ pc["load"] = "L81"
  /\ pc["prep"] = "P98"
  /\ ~Interrupted("prep")

\* C19: a stage owns a mutex only inside a critical section of that mutex:
\* never in sleep_until, load_data_blocking, preprocess_discard,
\* identify_driveable or publish_data, and never after it has returned.
C19_NoMutexHeldOutsidePutTake ==
  \A c \in Chans : \A t \in Stages :
     mutex[c] = t => pc[t] \in CriticalSection(t, c)

C19_Witness ==
  /\ pc["load"] = "L63"
  /\ pc["prep"] = "done"
  /\ "prep" \in parkedAtStart
  /\ mutex["loaded"] = "none"

\* the only stage that waits on each condition
CondWaiter ==
  [k \in Conds |->
     CASE k = "loaded.data_is_null" -> "load"
       [] k = "preprocessed.data_available" -> "id"
       [] OTHER -> "prep"]

\* C20: each condition has at most one waiter, the stage named above, and a
\* step that wakes a waiter of a condition leaves it without waiters.
C20_AtMostOneWaiterPerCondition ==
  /\ [](\A k \in Conds : waiters[k] \subseteq {CondWaiter[k]})
  /\ [][\A k \in Conds : waiters'[k] # waiters[k] =>
          (waiters'[k] = {} \/ waiters[k] = {})]_vars

C20_Witness ==
  /\ waiters["loaded.data_available"] = {"prep"}
  /\ waiters["preprocessed.data_available"] = {"id"}
  /\ hpc = "H23"

====
